---- MODULE Spec2Model ----
(***************************************************************************)
(* A model of finance_formulas.py: a stateless library of closed-form      *)
(* finance formulas.  Every Python function is an operator computed as the *)
(* code computes it, and one action per function applies it to inputs      *)
(* drawn from small sets, recording the call and its outcome.              *)
(*                                                                         *)
(* Numbers are exact rationals <<num, den>> (den > 0, lowest terms): the   *)
(* model follows the algebra of the Python expressions and the exceptions  *)
(* they raise, not the rounding of IEEE-754 doubles.  An outcome is a      *)
(* record [kind, val]:                                                     *)
(*   "value"             an exact rational result, in val                  *)
(*   "inexact"           a real result the rationals cannot hold (a surd)  *)
(*   "complex"           Python 3's result of a negative base raised to a  *)
(*                       non-integer power                                 *)
(*   "ZeroDivisionError" the exception raised by / and ** on a zero        *)
(*   "ValueError"        math.sqrt's "math domain error"                   *)
(***************************************************************************)
EXTENDS Integers, Sequences, FiniteSets

VARIABLES fn, args, result, inner

vars == <<fn, args, result, inner>>

----------------------------------------------------------------------------
(* Bounds of the model.                                                    *)

MaxN == 3

MaxLen == 3

----------------------------------------------------------------------------
(* Exact rational arithmetic.                                              *)

Abs(i) == IF i < 0 THEN -i ELSE i

RECURSIVE GCD(_, _)
GCD(a, b) == IF b = 0 THEN a ELSE GCD(b, a % b)

\* The rational a/b (b # 0) in lowest terms with a positive denominator.
Q(a, b) ==
    LET g == GCD(Abs(a), Abs(b))
        s == IF b < 0 THEN -1 ELSE 1
    IN  <<(s * a) \div g, (s * b) \div g>>

QAdd(x, y) == Q(x[1] * y[2] + y[1] * x[2], x[2] * y[2])

QSub(x, y) == Q(x[1] * y[2] - y[1] * x[2], x[2] * y[2])

QMul(x, y) == Q(x[1] * y[1], x[2] * y[2])

\* x / y for y # 0.
QDiv(x, y) == Q(x[1] * y[2], x[2] * y[1])

RECURSIVE IPow(_, _)
IPow(b, k) == IF k = 0 THEN 1 ELSE b * IPow(b, k - 1)

\* x ^ k for an integer k >= 0 (0 ^ 0 = 1, as in Python).
QPow(x, k) == <<IPow(x[1], k), IPow(x[2], k)>>

\* The integers y >= 0 with y ^ k = a: empty or a singleton.
IRoots(a, k) == {y \in 0..a : \A j \in 1..k : IPow(y, j) <= a /\ (j = k => IPow(y, j) = a)}

\* The rational roots y >= 0 of y ^ k = x, for x >= 0: empty when the root is a surd.
QRoots(x, k) == {<<p, q>> : p \in IRoots(x[1], k), q \in IRoots(x[2], k)}

----------------------------------------------------------------------------
(* Python values and the outcome of evaluating an expression.              *)

Val(q) == [kind |-> "value", val |-> q]

Num(a, b) == Val(Q(a, b))

PyInt(i) == Val(<<i, 1>>)

Raise(e) == [kind |-> e, val |-> <<0, 1>>]

Inexact == [kind |-> "inexact", val |-> <<0, 1>>]

Complex == [kind |-> "complex", val |-> <<0, 1>>]

IsErr(x) == x.kind \in {"ZeroDivisionError", "ValueError"}

IsZero(x) == x.kind = "value" /\ x.val[1] = 0

\* The kind of a result of an operation on two non-error operands that is not
\* computed exactly.
Blend(x, y) == IF x.kind = "complex" \/ y.kind = "complex" THEN Complex ELSE Inexact

Exact(x, y) == x.kind = "value" /\ y.kind = "value"

\* x + y: the left operand is evaluated first, so its exception wins.
Add(x, y) ==
    IF IsErr(x) THEN x
    ELSE IF IsErr(y) THEN y
    ELSE IF Exact(x, y) THEN Val(QAdd(x.val, y.val))
    ELSE Blend(x, y)

\* x - y
Sub(x, y) ==
    IF IsErr(x) THEN x
    ELSE IF IsErr(y) THEN y
    ELSE IF Exact(x, y) THEN Val(QSub(x.val, y.val))
    ELSE Blend(x, y)

\* x * y
Mul(x, y) ==
    IF IsErr(x) THEN x
    ELSE IF IsErr(y) THEN y
    ELSE IF Exact(x, y) THEN Val(QMul(x.val, y.val))
    ELSE IF (IsZero(x) \/ IsZero(y)) /\ Blend(x, y) = Inexact THEN PyInt(0)
    ELSE Blend(x, y)

\* -x
Neg(x) == Mul(PyInt(-1), x)

\* x / y: true division, ZeroDivisionError on a zero divisor.
Div(x, y) ==
    IF IsErr(x) THEN x
    ELSE IF IsErr(y) THEN y
    ELSE IF IsZero(y) THEN Raise("ZeroDivisionError")
    ELSE IF Exact(x, y) THEN Val(QDiv(x.val, y.val))
    ELSE IF IsZero(x) /\ Blend(x, y) = Inexact THEN PyInt(0)
    ELSE Blend(x, y)

\* x ** y for exact x and y.
PowExact(x, e) ==
    IF e[2] = 1
    THEN IF e[1] >= 0 THEN Val(QPow(x, e[1]))
         ELSE IF x[1] = 0 THEN Raise("ZeroDivisionError")
         ELSE Val(QDiv(<<1, 1>>, QPow(x, -e[1])))
    ELSE IF x[1] < 0 THEN Complex
    ELSE IF x[1] = 0 THEN IF e[1] < 0 THEN Raise("ZeroDivisionError") ELSE PyInt(0)
    ELSE IF QRoots(x, e[2]) = {} THEN Inexact
    ELSE LET y == CHOOSE z \in QRoots(x, e[2]) : TRUE
         IN  IF e[1] >= 0 THEN Val(QPow(y, e[1]))
             ELSE Val(QDiv(<<1, 1>>, QPow(y, -e[1])))

\* x ** y
Pow(x, y) ==
    IF IsErr(x) THEN x
    ELSE IF IsErr(y) THEN y
    ELSE IF Exact(x, y) THEN PowExact(x.val, y.val)
    ELSE Blend(x, y)

\* math.sqrt(x)
Sqrt(x) ==
    IF IsErr(x) THEN x
    ELSE IF x.kind # "value" THEN Inexact
    ELSE IF x.val[1] < 0 THEN Raise("ValueError")
    ELSE PowExact(x.val, <<1, 2>>)

----------------------------------------------------------------------------
(* The formulas, each as the Python function computes it.                  *)

One == PyInt(1)

\* A variant that discounts one period less when paid at the beginning.
compounding_present_value_early(FV, r, n, compounding_frequency, payment_at_beginning) ==
    IF payment_at_beginning
    THEN Div(FV, Pow(Add(One, Div(r, compounding_frequency)), Sub(n, One)))
    ELSE Div(FV, Pow(Add(One, Div(r, compounding_frequency)), n))

compounding_present_value(FV, r, n, compounding_frequency, payment_at_beginning) ==
    IF payment_at_beginning
    THEN Div(FV, Pow(Add(One, Div(r, compounding_frequency)), n))
    ELSE Div(FV, Pow(Add(One, Div(r, compounding_frequency)), n))

annuity_present_value(PMT, r, n, annuity_due) ==
    IF annuity_due
    THEN Mul(Mul(PMT, Div(Sub(One, Pow(Add(One, r), Neg(n))), r)), Add(One, r))
    ELSE Mul(PMT, Div(Sub(One, Pow(Add(One, r), Neg(n))), r))

\* A variant that compounds one period more when paid at the beginning.
compounding_future_value_early(PV, r, n, compounding_frequency, payment_at_beginning) ==
    IF payment_at_beginning
    THEN Mul(PV, Pow(Add(One, Div(r, compounding_frequency)), Add(n, One)))
    ELSE Mul(PV, Pow(Add(One, Div(r, compounding_frequency)), n))

compounding_future_value(PV, r, n, compounding_frequency, payment_at_beginning) ==
    IF payment_at_beginning
    THEN Mul(PV, Pow(Add(One, Div(r, compounding_frequency)), n))
    ELSE Mul(PV, Pow(Add(One, Div(r, compounding_frequency)), n))

\* A variant with the present-value exponent -n in place of n.
annuity_future_value_negated(PMT, r, n, annuity_due) ==
    IF annuity_due
    THEN Mul(Mul(PMT, Div(Sub(Pow(Add(One, r), Neg(n)), One), r)), Add(One, r))
    ELSE Mul(PMT, Div(Sub(Pow(Add(One, r), Neg(n)), One), r))

annuity_future_value(PMT, r, n, annuity_due) ==
    IF annuity_due
    THEN Mul(Mul(PMT, Div(Sub(Pow(Add(One, r), n), One), r)), Add(One, r))
    ELSE Mul(PMT, Div(Sub(Pow(Add(One, r), n), One), r))

perpetuity_present_value(PMT, r) == Div(PMT, r)

\* [f(n, cf) for n, cf in enumerate(cash_flows)]: the terms in index order,
\* Python's 0-based n being i - 1.
Enumerate(cash_flows) == [i \in 1..Len(cash_flows) |-> <<i - 1, cash_flows[i]>>]

\* sum(terms): a left-to-right reduction from 0.  An exception raised while
\* the list is built is the first one in index order, which is the one the
\* left-first operators propagate.
RECURSIVE PySumTo(_, _)
PySumTo(terms, k) == IF k = 0 THEN PyInt(0) ELSE Add(PySumTo(terms, k - 1), terms[k])

PySum(terms) == PySumTo(terms, Len(terms))

\* A variant that discounts the first cash flow too (periods counted from 1).
npv_uneven_cash_flows_from_one(rate, cash_flows) ==
    LET e == Enumerate(cash_flows)
    IN  PySum([i \in 1..Len(e) |-> Div(e[i][2], Pow(Add(One, rate), PyInt(e[i][1] + 1)))])

npv_uneven_cash_flows(rate, cash_flows) ==
    LET e == Enumerate(cash_flows)
    IN  PySum([i \in 1..Len(e) |-> Div(e[i][2], Pow(Add(One, rate), PyInt(e[i][1])))])

\* A variant that compounds the first cash flow the most and the last not at all.
future_value_uneven_cash_flows_reversed(rate, cash_flows) ==
    LET e == Enumerate(cash_flows)
    IN  PySum([i \in 1..Len(e) |->
                 Mul(e[i][2], Pow(Add(One, rate), PyInt(Len(e) - 1 - e[i][1])))])

future_value_uneven_cash_flows(rate, cash_flows) ==
    LET e == Enumerate(cash_flows)
    IN  PySum([i \in 1..Len(e) |-> Mul(e[i][2], Pow(Add(One, rate), PyInt(e[i][1])))])

\* A variant that forgets the annuity-due divisor (1 + r).
annuity_payment_no_due(PV, r, n, annuity_due) ==
    IF annuity_due
    THEN Mul(PV, Div(r, Sub(One, Pow(Add(One, r), Neg(n)))))
    ELSE Mul(PV, Div(r, Sub(One, Pow(Add(One, r), Neg(n)))))

annuity_payment(PV, r, n, annuity_due) ==
    IF annuity_due
    THEN Div(Mul(PV, Div(r, Sub(One, Pow(Add(One, r), Neg(n))))), Add(One, r))
    ELSE Mul(PV, Div(r, Sub(One, Pow(Add(One, r), Neg(n)))))

\* A variant that applies the annuity-due factor (1 + r) to the numerator.
annuity_payment_from_future_value_times(FV, r, n, annuity_due) ==
    IF annuity_due
    THEN Div(Mul(Mul(FV, r), Add(One, r)), Sub(Pow(Add(One, r), n), One))
    ELSE Div(Mul(FV, r), Sub(Pow(Add(One, r), n), One))

annuity_payment_from_future_value(FV, r, n, annuity_due) ==
    IF annuity_due
    THEN Div(Mul(FV, r), Mul(Add(One, r), Sub(Pow(Add(One, r), n), One)))
    ELSE Div(Mul(FV, r), Sub(Pow(Add(One, r), n), One))

holding_period_return(initial_price, final_price, dividends) ==
    Div(Add(Sub(final_price, initial_price), dividends), initial_price)

\* placeholder = 1; for i in sub_period_returns: placeholder *= math.sqrt(1+i)
RECURSIVE TwrrLoop(_, _)
TwrrLoop(sub_period_returns, k) ==
    IF k = 0 THEN One
    ELSE Mul(TwrrLoop(sub_period_returns, k - 1), Sqrt(Add(One, sub_period_returns[k])))

\* The textbook variant: the plain product of (1 + r_i), without the square root.
RECURSIVE PlainLoop(_, _)
PlainLoop(sub_period_returns, k) ==
    IF k = 0 THEN One
    ELSE Mul(PlainLoop(sub_period_returns, k - 1), Add(One, sub_period_returns[k]))

time_weighted_rate_of_return_plain(sub_period_returns) ==
    Sub(PlainLoop(sub_period_returns, Len(sub_period_returns)), One)

time_weighted_rate_of_return(sub_period_returns) ==
    Sub(TwrrLoop(sub_period_returns, Len(sub_period_returns)), One)

DaysBank == 360

DaysYear == 365

\* A variant that masks the division by zero of a zero days_to_maturity.
bank_discount_yield_guarded(cost, face_value, days_to_maturity) ==
    IF IsZero(days_to_maturity) THEN PyInt(0)
    ELSE Mul(Div(Sub(face_value, cost), face_value), Div(PyInt(DaysBank), days_to_maturity))

bank_discount_yield(cost, face_value, days_to_maturity) ==
    Mul(Div(Sub(face_value, cost), face_value), Div(PyInt(DaysBank), days_to_maturity))

holding_period_yield(initial_investment, final_investment, income) ==
    Div(Sub(Add(final_investment, income), initial_investment), initial_investment)

effective_annual_yield(initial_investment, final_investment, income, days_to_maturity) ==
    Sub(Pow(Add(One, Div(Sub(Add(final_investment, income), initial_investment),
                         initial_investment)),
            Div(PyInt(DaysYear), days_to_maturity)),
        One)

money_market_yield(initial_investment, final_investment, days_to_maturity, income) ==
    Mul(Div(Sub(Add(final_investment, income), initial_investment), initial_investment),
        Div(PyInt(DaysBank), days_to_maturity))

bond_equivalent_yield(rate_given, compounding_frequency) ==
    Mul(Sub(Pow(Add(One, rate_given), Div(compounding_frequency, PyInt(2))), One), PyInt(2))

----------------------------------------------------------------------------
(* The inputs the calls are drawn from.                                    *)

Amounts == {PyInt(-3), PyInt(0), Num(1, 2), PyInt(2), PyInt(100)}

Rates == {PyInt(-2), PyInt(-1), Num(-1, 2), PyInt(0), Num(1, 2), PyInt(1), PyInt(2)}

Periods == {PyInt(k) : k \in 0..MaxN}

Frequencies == {PyInt(1), PyInt(2)}

Flows == {PyInt(-1), PyInt(0), PyInt(2), PyInt(3)}

SubReturns == {PyInt(-2), PyInt(-1), Num(-3, 4), PyInt(0), Num(1, 2), Num(5, 4), PyInt(3)}

Initials == {PyInt(0), PyInt(2), PyInt(4)}

Finals == {PyInt(-6), PyInt(0), PyInt(1), PyInt(5), PyInt(9)}

Incomes == {PyInt(0), PyInt(1)}

Days == {PyInt(0), PyInt(30), PyInt(73), PyInt(365), PyInt(730), PyInt(-365)}

YearlyFrequencies == {PyInt(1), PyInt(2), PyInt(4)}

SeqsUpTo(S, k) == UNION {[1..j -> S] : j \in 0..k}

----------------------------------------------------------------------------
(* The state: the call in progress (fn, args), its outcome, and, when the  *)
(* first argument was the result of another call, that inner call.         *)

NoCall == [fn |-> "none"]

NoResult == [kind |-> "none", val |-> <<0, 1>>]

Init ==
    /\ fn = "none"
    /\ args = [none |-> TRUE]
    /\ result = NoResult
    /\ inner = NoCall

Idle == fn = "none"

Call_compounding_present_value ==
    \E FV \in Amounts, r \in Rates, n \in Periods, f \in Frequencies, b \in BOOLEAN :
        /\ Idle
        /\ fn' = "compounding_present_value"
        /\ args' = [FV |-> FV, r |-> r, n |-> n, compounding_frequency |-> f,
                    payment_at_beginning |-> b]
        /\ result' = compounding_present_value(FV, r, n, f, b)
        /\ inner' = NoCall

Call_annuity_present_value ==
    \E PMT \in Amounts, r \in Rates, n \in Periods, d \in BOOLEAN :
        /\ Idle
        /\ fn' = "annuity_present_value"
        /\ args' = [PMT |-> PMT, r |-> r, n |-> n, annuity_due |-> d]
        /\ result' = annuity_present_value(PMT, r, n, d)
        /\ inner' = NoCall

Call_compounding_future_value ==
    \E PV \in Amounts, r \in Rates, n \in Periods, f \in Frequencies, b \in BOOLEAN :
        /\ Idle
        /\ fn' = "compounding_future_value"
        /\ args' = [PV |-> PV, r |-> r, n |-> n, compounding_frequency |-> f,
                    payment_at_beginning |-> b]
        /\ result' = compounding_future_value(PV, r, n, f, b)
        /\ inner' = NoCall

Call_annuity_future_value ==
    \E PMT \in Amounts, r \in Rates, n \in Periods, d \in BOOLEAN :
        /\ Idle
        /\ fn' = "annuity_future_value"
        /\ args' = [PMT |-> PMT, r |-> r, n |-> n, annuity_due |-> d]
        /\ result' = annuity_future_value(PMT, r, n, d)
        /\ inner' = NoCall

Call_perpetuity_present_value ==
    \E PMT \in Amounts, r \in Rates :
        /\ Idle
        /\ fn' = "perpetuity_present_value"
        /\ args' = [PMT |-> PMT, r |-> r]
        /\ result' = perpetuity_present_value(PMT, r)
        /\ inner' = NoCall

Call_npv_uneven_cash_flows ==
    \E rate \in Rates, cash_flows \in SeqsUpTo(Flows, MaxLen) :
        /\ Idle
        /\ fn' = "npv_uneven_cash_flows"
        /\ args' = [rate |-> rate, cash_flows |-> cash_flows]
        /\ result' = npv_uneven_cash_flows(rate, cash_flows)
        /\ inner' = NoCall

Call_future_value_uneven_cash_flows ==
    \E rate \in Rates, cash_flows \in SeqsUpTo(Flows, MaxLen) :
        /\ Idle
        /\ fn' = "future_value_uneven_cash_flows"
        /\ args' = [rate |-> rate, cash_flows |-> cash_flows]
        /\ result' = future_value_uneven_cash_flows(rate, cash_flows)
        /\ inner' = NoCall

Call_annuity_payment ==
    \E PV \in Amounts, r \in Rates, n \in Periods, d \in BOOLEAN :
        /\ Idle
        /\ fn' = "annuity_payment"
        /\ args' = [PV |-> PV, r |-> r, n |-> n, annuity_due |-> d]
        /\ result' = annuity_payment(PV, r, n, d)
        /\ inner' = NoCall

Call_annuity_payment_from_future_value ==
    \E FV \in Amounts, r \in Rates, n \in Periods, d \in BOOLEAN :
        /\ Idle
        /\ fn' = "annuity_payment_from_future_value"
        /\ args' = [FV |-> FV, r |-> r, n |-> n, annuity_due |-> d]
        /\ result' = annuity_payment_from_future_value(FV, r, n, d)
        /\ inner' = NoCall

Call_holding_period_return ==
    \E p0 \in Initials, p1 \in Finals, dv \in Incomes :
        /\ Idle
        /\ fn' = "holding_period_return"
        /\ args' = [initial_price |-> p0, final_price |-> p1, dividends |-> dv]
        /\ result' = holding_period_return(p0, p1, dv)
        /\ inner' = NoCall

Call_time_weighted_rate_of_return ==
    \E rs \in SeqsUpTo(SubReturns, MaxLen) :
        /\ Idle
        /\ fn' = "time_weighted_rate_of_return"
        /\ args' = [sub_period_returns |-> rs]
        /\ result' = time_weighted_rate_of_return(rs)
        /\ inner' = NoCall

Call_bank_discount_yield ==
    \E cost \in Finals, face \in Initials, days \in Days :
        /\ Idle
        /\ fn' = "bank_discount_yield"
        /\ args' = [cost |-> cost, face_value |-> face, days_to_maturity |-> days]
        /\ result' = bank_discount_yield(cost, face, days)
        /\ inner' = NoCall

Call_holding_period_yield ==
    \E i0 \in Initials, i1 \in Finals, inc \in Incomes :
        /\ Idle
        /\ fn' = "holding_period_yield"
        /\ args' = [initial_investment |-> i0, final_investment |-> i1, income |-> inc]
        /\ result' = holding_period_yield(i0, i1, inc)
        /\ inner' = NoCall

Call_effective_annual_yield ==
    \E i0 \in Initials, i1 \in Finals, inc \in Incomes, days \in Days :
        /\ Idle
        /\ fn' = "effective_annual_yield"
        /\ args' = [initial_investment |-> i0, final_investment |-> i1, income |-> inc,
                    days_to_maturity |-> days]
        /\ result' = effective_annual_yield(i0, i1, inc, days)
        /\ inner' = NoCall

Call_money_market_yield ==
    \E i0 \in Initials, i1 \in Finals, inc \in Incomes, days \in Days :
        /\ Idle
        /\ fn' = "money_market_yield"
        /\ args' = [initial_investment |-> i0, final_investment |-> i1, income |-> inc,
                    days_to_maturity |-> days]
        /\ result' = money_market_yield(i0, i1, days, inc)
        /\ inner' = NoCall

Call_bond_equivalent_yield ==
    \E rate \in Rates, f \in YearlyFrequencies :
        /\ Idle
        /\ fn' = "bond_equivalent_yield"
        /\ args' = [rate_given |-> rate, compounding_frequency |-> f]
        /\ result' = bond_equivalent_yield(rate, f)
        /\ inner' = NoCall

\* compounding_present_value(compounding_future_value(PV, r, n, f, b1), r, n, f, b2):
\* the inner call returned, and its result is the outer call's FV.
Nest_compounding_present_value ==
    /\ fn = "compounding_future_value"
    /\ inner = NoCall
    /\ ~IsErr(result)
    /\ \E b \in BOOLEAN :
        /\ fn' = "compounding_present_value"
        /\ args' = [FV |-> result, r |-> args.r, n |-> args.n,
                    compounding_frequency |-> args.compounding_frequency,
                    payment_at_beginning |-> b]
        /\ result' = compounding_present_value(result, args.r, args.n,
                                               args.compounding_frequency, b)
        /\ inner' = [fn |-> fn, args |-> args]

\* annuity_payment(annuity_present_value(PMT, r, n, d), r, n, d)
Nest_annuity_payment ==
    /\ fn = "annuity_present_value"
    /\ inner = NoCall
    /\ ~IsErr(result)
    /\ fn' = "annuity_payment"
    /\ args' = [PV |-> result, r |-> args.r, n |-> args.n, annuity_due |-> args.annuity_due]
    /\ result' = annuity_payment(result, args.r, args.n, args.annuity_due)
    /\ inner' = [fn |-> fn, args |-> args]

\* The call is over: its outcome has been consumed by the caller.
Return ==
    /\ ~Idle
    /\ fn' = "none"
    /\ args' = [none |-> TRUE]
    /\ result' = NoResult
    /\ inner' = NoCall

Next ==
    \/ Call_compounding_present_value
    \/ Call_annuity_present_value
    \/ Call_compounding_future_value
    \/ Call_annuity_future_value
    \/ Call_perpetuity_present_value
    \/ Call_npv_uneven_cash_flows
    \/ Call_future_value_uneven_cash_flows
    \/ Call_annuity_payment
    \/ Call_annuity_payment_from_future_value
    \/ Call_holding_period_return
    \/ Call_time_weighted_rate_of_return
    \/ Call_bank_discount_yield
    \/ Call_holding_period_yield
    \/ Call_effective_annual_yield
    \/ Call_money_market_yield
    \/ Call_bond_equivalent_yield
    \/ Nest_compounding_present_value
    \/ Nest_annuity_payment
    \/ Return

Spec == Init /\ [][Next]_vars

----------------------------------------------------------------------------
(* Properties.                                                             *)

Nested == inner.fn # "none"

MinusOne == PyInt(-1)

Zero == PyInt(0)

AnnuityFns == {"annuity_present_value", "annuity_future_value", "annuity_payment",
               "annuity_payment_from_future_value"}

\* The round trip compounding_present_value(compounding_future_value(PV, r, n), r, n)
\* with the default compounding_frequency.
RoundTripCompounding ==
    /\ fn = "compounding_present_value"
    /\ Nested
    /\ args.compounding_frequency = One

\* C1 as stated: for all PV, all r # 0 and all n >= 0 the round trip returns PV.
C1_RoundTripForNonzeroRate ==
    (RoundTripCompounding /\ args.r # Zero) => result = inner.args.PV

\* C1, amended: for all PV, all r # -1 (r = 0 included) and all n >= 0, and for
\* n = 0 at any r, compounding_present_value(compounding_future_value(PV, r, n), r, n)
\* returns PV, whatever the two payment_at_beginning flags; at r = -1 with n >= 1
\* the outer call raises ZeroDivisionError.
C1_RoundTrip ==
    RoundTripCompounding =>
        IF args.r = MinusOne /\ args.n # Zero
        THEN result.kind = "ZeroDivisionError"
        ELSE result = inner.args.PV

C1_Witness ==
    /\ RoundTripCompounding
    /\ args.r = Num(1, 2) /\ args.n = PyInt(3)
    /\ inner.args.PV = PyInt(100)
    /\ args.payment_at_beginning /\ ~inner.args.payment_at_beginning
    /\ args.FV = Num(675, 2)
    /\ result = PyInt(100)

\* C2: for r # 0, r # -1 and n >= 1 the annuity_due=True result is the
\* annuity_due=False result times (1+r) for annuity_present_value and
\* annuity_future_value, and divided by (1+r) for annuity_payment and
\* annuity_payment_from_future_value (an error of the one is the error of the other).
C2_DueFactor ==
    (/\ fn \in AnnuityFns
     /\ args.annuity_due
     /\ args.r \notin {Zero, MinusOne}
     /\ args.n # Zero) =>
        LET g == Add(One, args.r)
        IN  CASE fn = "annuity_present_value" ->
                    result = Mul(annuity_present_value(args.PMT, args.r, args.n, FALSE), g)
              [] fn = "annuity_future_value" ->
                    result = Mul(annuity_future_value(args.PMT, args.r, args.n, FALSE), g)
              [] fn = "annuity_payment" ->
                    result = Div(annuity_payment(args.PV, args.r, args.n, FALSE), g)
              [] fn = "annuity_payment_from_future_value" ->
                    result = Div(annuity_payment_from_future_value(args.FV, args.r, args.n,
                                                                   FALSE), g)

C2_Witness ==
    /\ fn = "annuity_payment_from_future_value"
    /\ args.annuity_due
    /\ args.FV = PyInt(100) /\ args.r = Num(1, 2) /\ args.n = PyInt(2)
    /\ annuity_payment_from_future_value(args.FV, args.r, args.n, FALSE) = PyInt(40)
    /\ result = Num(80, 3)

\* C3: for all PMT, r > 0, n >= 1 and either annuity_due d,
\* annuity_payment(annuity_present_value(PMT, r, n, d), r, n, d) returns PMT.
C3_PaymentInvertsPresentValue ==
    (/\ fn = "annuity_payment"
     /\ Nested
     /\ args.r.val[1] > 0
     /\ args.n # Zero) => result = inner.args.PMT

C3_Witness ==
    /\ fn = "annuity_payment"
    /\ Nested
    /\ args.annuity_due
    /\ args.r = Num(1, 2) /\ args.n = PyInt(3)
    /\ inner.args.PMT = PyInt(100)
    /\ args.PV = Num(1900, 9)
    /\ result = PyInt(100)

\* sum over k = 0 .. len-1 of cf[k] / g^k, on the rationals (g # 0 or len <= 1).
RECURSIVE DiscountedSum(_, _, _)
DiscountedSum(g, cf, len) ==
    IF len = 0 THEN <<0, 1>>
    ELSE QAdd(DiscountedSum(g, cf, len - 1), QDiv(cf[len].val, QPow(g, len - 1)))

\* C4: npv_uneven_cash_flows(rate, cash_flows) is the sum over the 0-based index n
\* of cash_flows[n] / (1+rate)^n: cash_flows[0] is undiscounted, the empty sequence
\* gives 0 at any rate (rate = -1 included); where a term divides by zero
\* (rate = -1, two or more cash flows) the call raises ZeroDivisionError.
C4_NpvIsDiscountedSum ==
    fn = "npv_uneven_cash_flows" =>
        LET g == QAdd(<<1, 1>>, args.rate.val)
            len == Len(args.cash_flows)
        IN  IF g[1] = 0 /\ len >= 2
            THEN result.kind = "ZeroDivisionError"
            ELSE result = Val(DiscountedSum(g, args.cash_flows, len))

C4_Witness ==
    /\ fn = "npv_uneven_cash_flows"
    /\ args.rate = PyInt(1)
    /\ args.cash_flows = <<PyInt(3), PyInt(2), PyInt(-1)>>
    /\ result = Num(15, 4)

\* C5: compounding_present_value and compounding_future_value give the same
\* outcome (value or exception) for payment_at_beginning True and False.
C5_FlagIsInert ==
    /\ fn = "compounding_present_value" =>
          result = compounding_present_value(args.FV, args.r, args.n,
                       args.compounding_frequency, ~args.payment_at_beginning)
    /\ fn = "compounding_future_value" =>
          result = compounding_future_value(args.PV, args.r, args.n,
                       args.compounding_frequency, ~args.payment_at_beginning)

C5_Witness ==
    /\ fn = "compounding_future_value"
    /\ args.payment_at_beginning
    /\ args.PV = PyInt(2) /\ args.r = PyInt(1) /\ args.n = PyInt(3)
    /\ args.compounding_frequency = PyInt(2)
    /\ result = Num(27, 4)

\* C6: a zero divisor is never masked: perpetuity_present_value with r = 0,
\* holding_period_return with initial_price = 0, holding_period_yield,
\* effective_annual_yield and money_market_yield with initial_investment = 0, and
\* bank_discount_yield with face_value = 0 or days_to_maturity = 0 each raise
\* ZeroDivisionError.
C6_DivisionByZeroPropagates ==
    (\/ fn = "perpetuity_present_value" /\ args.r = Zero
     \/ fn = "holding_period_return" /\ args.initial_price = Zero
     \/ /\ fn \in {"holding_period_yield", "effective_annual_yield", "money_market_yield"}
        /\ args.initial_investment = Zero
     \/ /\ fn = "bank_discount_yield"
        /\ (args.face_value = Zero \/ args.days_to_maturity = Zero))
    => result.kind = "ZeroDivisionError"

C6_Witness ==
    /\ fn = "bank_discount_yield"
    /\ args.face_value = PyInt(4) /\ args.cost = PyInt(1)
    /\ args.days_to_maturity = Zero
    /\ result.kind = "ZeroDivisionError"

\* C7 as stated: each annuity formula called with r = -1 and n >= 1 ends in a
\* division-by-zero error, for either annuity_due.
C7_EveryAnnuityFormulaDividesByZero ==
    (fn \in AnnuityFns /\ args.r = MinusOne /\ args.n # Zero) =>
        result.kind = "ZeroDivisionError"

\* C7, amended: with r = -1 and n >= 1 no call is rejected by validation;
\* annuity_present_value and annuity_payment (either annuity_due) and
\* annuity_payment_from_future_value with annuity_due=True raise ZeroDivisionError,
\* while annuity_future_value returns PMT (ordinary) or 0 (due) and
\* annuity_payment_from_future_value with annuity_due=False returns FV.
C7_RateMinusOne ==
    (fn \in AnnuityFns /\ args.r = MinusOne /\ args.n # Zero) =>
        CASE fn \in {"annuity_present_value", "annuity_payment"} ->
                result.kind = "ZeroDivisionError"
          [] fn = "annuity_future_value" ->
                result = IF args.annuity_due THEN Zero ELSE args.PMT
          [] fn = "annuity_payment_from_future_value" ->
                IF args.annuity_due THEN result.kind = "ZeroDivisionError"
                ELSE result = args.FV

C7_Witness ==
    /\ fn = "annuity_future_value"
    /\ args.r = MinusOne /\ args.n = PyInt(3) /\ ~args.annuity_due
    /\ args.PMT = PyInt(100)
    /\ result = PyInt(100)

\* The base 1 + (final + income - initial)/initial of effective_annual_yield is
\* negative and the exponent 365/days_to_maturity is not an integer.
NegativeBaseFractionalExponent ==
    /\ fn = "effective_annual_yield"
    /\ args.initial_investment # Zero
    /\ args.days_to_maturity # Zero
    /\ LET hpy == QDiv(QSub(QAdd(args.final_investment.val, args.income.val),
                            args.initial_investment.val),
                       args.initial_investment.val)
       IN  QAdd(<<1, 1>>, hpy)[1] < 0
    /\ QDiv(<<DaysYear, 1>>, args.days_to_maturity.val)[2] # 1

\* The exponent 365/days_to_maturity, when it is an integer.
WholeExponent ==
    /\ fn = "effective_annual_yield"
    /\ args.initial_investment # Zero
    /\ args.days_to_maturity # Zero
    /\ QDiv(<<DaysYear, 1>>, args.days_to_maturity.val)[2] = 1

\* Where the exponent is a whole number k >= 0, effective_annual_yield returns
\* ((final + income) / initial)^k - 1: the base 1 + hpy is (final + income)/initial.
C8_YieldFormula ==
    (WholeExponent /\ QDiv(<<DaysYear, 1>>, args.days_to_maturity.val)[1] >= 0) =>
        result = Val(QSub(QPow(QDiv(QAdd(args.final_investment.val, args.income.val),
                                    args.initial_investment.val),
                               QDiv(<<DaysYear, 1>>, args.days_to_maturity.val)[1]),
                          <<1, 1>>))

\* With a negative base and a non-integer exponent the call raises a domain
\* error or yields NaN.
C8_NegativeBaseIsDomainError ==
    NegativeBaseFractionalExponent => result.kind \in {"ValueError", "nan"}

\* C8: effective_annual_yield returns (1 + hpy)^(365/days_to_maturity) - 1, and
\* with a negative base and a non-integer exponent the call raises a domain error
\* or yields NaN instead of returning a number.
C8_EffectiveAnnualYield == C8_YieldFormula /\ C8_NegativeBaseIsDomainError

\* What the code does there: Python 3's ** returns a complex number, and the
\* function returns it.
C8_NegativeBaseIsComplex ==
    NegativeBaseFractionalExponent => result.kind = "complex"

\* product over i of sqrt(1 + r_i), on the rationals, every 1 + r_i a square.
RECURSIVE RootProduct(_, _)
RootProduct(rs, len) ==
    IF len = 0 THEN <<1, 1>>
    ELSE QMul(RootProduct(rs, len - 1),
              CHOOSE y \in QRoots(QAdd(<<1, 1>>, rs[len].val), 2) : TRUE)

AllSquares(rs) ==
    \A i \in 1..Len(rs) :
        LET f == QAdd(<<1, 1>>, rs[i].val)
        IN  f[1] >= 0 /\ QRoots(f, 2) # {}

\* C9: time_weighted_rate_of_return(rs) is the product of sqrt(1 + r_i) minus 1
\* (checked where every 1 + r_i is the square of a rational); the empty sequence
\* gives 0.
C9_TwrrIsRootProduct ==
    (fn = "time_weighted_rate_of_return" /\ AllSquares(args.sub_period_returns)) =>
        result = Val(QSub(RootProduct(args.sub_period_returns,
                                      Len(args.sub_period_returns)), <<1, 1>>))

C9_Witness ==
    /\ fn = "time_weighted_rate_of_return"
    /\ args.sub_period_returns = <<PyInt(3), Num(5, 4)>>
    /\ result = PyInt(2)

\* sum over k = 0 .. len-1 of cf[k] * g^k, on the rationals.
RECURSIVE CompoundedSum(_, _, _)
CompoundedSum(g, cf, len) ==
    IF len = 0 THEN <<0, 1>>
    ELSE QAdd(CompoundedSum(g, cf, len - 1), QMul(cf[len].val, QPow(g, len - 1)))

\* C10: future_value_uneven_cash_flows(rate, cash_flows) is the sum over the
\* 0-based index n of cash_flows[n] * (1+rate)^n: cash_flows[0] is not compounded,
\* the last element is compounded the most, and the empty sequence gives 0.
C10_FvIsCompoundedSum ==
    fn = "future_value_uneven_cash_flows" =>
        result = Val(CompoundedSum(QAdd(<<1, 1>>, args.rate.val), args.cash_flows,
                                   Len(args.cash_flows)))

C10_Witness ==
    /\ fn = "future_value_uneven_cash_flows"
    /\ args.rate = PyInt(1)
    /\ args.cash_flows = <<PyInt(3), PyInt(2), PyInt(-1)>>
    /\ result = PyInt(3)

====
